---- MODULE Spec2Model ----
(***************************************************************************)
(* Power-flow solver and per-timestep commit of the ithaka_powertrain_sim  *)
(* package: component tree, energy sources, brake, Motorbike timestep.     *)
(*                                                                         *)
(* Energies are fixed-point integers: one energy unit (1.0 in the code)    *)
(* is Unit model units.  Efficiency ratios are powers of two (1 or 1/2),   *)
(* for which the float operations of the code are exact on the values of   *)
(* the model; the field "exact" of the solver's threaded state records     *)
(* that every division of the run was exact (ArithmeticExact).             *)
(*                                                                         *)
(* Masses are integers too: a mass of 1.0 is MassDen model units.  The     *)
(* sources of the configurations of Spec hold fuel of an energy density so *)
(* high that the fuel mass does not show in the vehicle mass of 2.0; the   *)
(* tank of MassSpec holds 1.0 of fuel mass when full.                      *)
(***************************************************************************)
EXTENDS Integers, Sequences, FiniteSets, TLC

\* ------------------------------------------------------------------ bounds
Unit == 16
MaxPasses == 8
MaxSteps == 2
MaxParts == 3

\* --------------------------------------------------------- program values
\* math.inf of the limits' defaults, and None of an angular velocity
INF == 1000000
NoW == -1
\* the 1e0 tolerance of the relaxation loop and of the commit
Tol == Unit
\* a mass of 1.0
MassDen == 8 * Unit

Abs(x) == IF x < 0 THEN -x ELSE x
Min(a, b) == IF b < a THEN b ELSE a
Max(a, b) == IF b > a THEN b ELSE a
\* float nan, and the test for a value that is not finite
NAN == 3 * INF
IsInf(x) == x >= INF \/ x <= -INF
\* a - b for a finite b: inf - b is inf, nan - b is nan
Minus(a, b) == IF IsInf(a) THEN a ELSE a - b
Pow2(e) == IF e = 0 THEN 1 ELSE 2

\* the efficiency of an AngularVelocityEfficiency whose table holds the ratio
\* 0.0 at every angular velocity
ZeroAtW == 2

\* np.clip(x, lo, hi) = minimum(maximum(x, lo), hi)
Clip(x, lo, hi) == Min(Max(x, lo), hi)

\* limit * delta_time for delta_time > 0 (inf * dt = inf)
TimesDt(l, dt) == IF IsInf(l) THEN l ELSE l * dt

\* ------------------------------------------------------ component trees
Comp(kind, ch, e, minP, maxP, minT, maxT, fixedW) ==
  [kind |-> kind, children |-> ch, eff |-> e,
   minP |-> minP, maxP |-> maxP, minT |-> minT, maxT |-> maxT,
   gearing |-> 1, fixedW |-> fixedW, ratios |-> <<>>, upshift |-> <<>>,
   initial |-> 0, allowNeg |-> FALSE, allowRefuel |-> FALSE,
   dry_mass |-> 0, energy_density |-> INF]

\* AbstractComponent.__init__ defaults: efficiency 1.0, limits -inf / inf
Plain(kind, ch) == Comp(kind, ch, 0, -INF, INF, -INF, INF, NoW)

\* __init__(dry_mass = m)
DryMass(c, m) == [c EXCEPT !.dry_mass = m]

\* Motorbike.__init__(dry_mass_excluding_components = 2.0)
Bike(ch) == DryMass(Plain("Motorbike", ch), 2 * MassDen)

\* ChemicalSource.__init__(energy_density = d), in model units of energy per
\* unit of mass
Fuel(c, d) == [c EXCEPT !.energy_density = d]

\* MechanicalComponent.__init__(gearing_ratio = g)
Geared(c, g) == [c EXCEPT !.gearing = g]

\* Gearbox.__init__(child_gear_ratios, upshift_child_angular_velocity)
Gearbox(ch, ratios, upshift) ==
  [Plain("Gearbox", ch) EXCEPT !.ratios = ratios, !.upshift = upshift]

\* MechanicalBrake.__init__: maximum_power_generation = 0.0, no children
Brake == Comp("MechanicalBrake", <<>>, 0, -INF, 0, -INF, INF, NoW)

\* variant: the minimum power is left at the default of -inf
Chemical_regenerating(initial, neg, refuel) ==
  [Comp("ChemicalSource", <<>>, 0, -INF, INF, -INF, INF, NoW)
     EXCEPT !.initial = initial, !.allowNeg = neg, !.allowRefuel = refuel]

\* ChemicalSource.__init__: efficiency 1.0, minimum power 0.0
Chemical(initial, neg, refuel) ==
  [Comp("ChemicalSource", <<>>, 0, 0, INF, -INF, INF, NoW)
     EXCEPT !.initial = initial, !.allowNeg = neg, !.allowRefuel = refuel]

\* ElectricalSource.__init__
Electrical(e, minP, maxP, initial, neg, refuel) ==
  [Comp("ElectricalSource", <<>>, e, minP, maxP, -INF, INF, NoW)
     EXCEPT !.initial = initial, !.allowNeg = neg, !.allowRefuel = refuel]

Configs == {"ICE", "EV", "Chain", "Hybrid", "Genset", "Bare", "Limp", "Series", "Geared"}

TreeOf(c) ==
  CASE c = "ICE" ->
         <<Bike(<<2, 3>>),
           Comp("CombustionEngine", <<4>>, 1, 0, 3 * Unit, -INF, INF, NoW),
           Brake,
           Chemical(8 * Unit, FALSE, FALSE)>>
    [] c = "EV" ->
         <<Bike(<<2, 3>>),
           Comp("ElectricMotor", <<4>>, 0, -2 * Unit, 6 * Unit, -Unit, 4 * Unit, NoW),
           Brake,
           Electrical(1, -INF, INF, 6 * Unit, FALSE, TRUE)>>
    [] c = "Chain" ->
         <<Bike(<<2>>),
           Plain("ElectricMotor", <<3>>),
           Electrical(0, -INF, INF, 4 * Unit, TRUE, FALSE)>>
    [] c = "Hybrid" ->
         <<Bike(<<2, 3>>),
           Comp("MechanicalComponent", <<4, 5>>, 1, -INF, INF, -INF, INF, NoW),
           Brake,
           Comp("CombustionEngine", <<6>>, 0, 0, 2 * Unit, -INF, INF, NoW),
           Comp("ElectricMotor", <<7>>, 1, -Unit, 2 * Unit, -INF, INF, NoW),
           Chemical(4 * Unit, FALSE, TRUE),
           Electrical(0, -2 * Unit, 2 * Unit, 4 * Unit, FALSE, FALSE)>>
    [] c = "Genset" ->
         <<Bike(<<2, 3>>),
           Plain("ElectricMotor", <<4>>),
           Comp("MechanicalComponent", <<5>>, 0, Unit, 2 * Unit, -INF, INF, NoW),
           Electrical(0, -INF, INF, 4 * Unit, FALSE, FALSE),
           Chemical(4 * Unit, FALSE, FALSE)>>
    [] c = "Limp" ->
         <<Bike(<<2, 3>>),
           Comp("ElectricMotor", <<4>>, 0, -2 * Unit, 0, -INF, INF, NoW),
           Brake,
           Electrical(0, -INF, INF, 4 * Unit, FALSE, FALSE)>>
    [] c = "Series" ->
         <<Bike(<<2>>),
           Plain("ElectricalComponent", <<3>>),
           Geared(Comp("ElectricMotor", <<4>>, 0, Unit, 4 * Unit, -INF, 2 * Unit, 1), 2),
           Comp("CombustionEngine", <<5>>, 1, 0, 3 * Unit, -INF, Unit, NoW),
           Chemical(8 * Unit, FALSE, FALSE)>>
    [] c = "Geared" ->
         <<Bike(<<2, 3>>),
           Gearbox(<<4>>, <<3, 2, 1>>, <<3, 3, 2>>),
           Brake,
           Comp("CombustionEngine", <<5>>, 0, 0, 3 * Unit, -INF, Unit, NoW),
           Chemical(8 * Unit, FALSE, FALSE)>>
    [] c = "Tanker" ->
         <<DryMass(Plain("Motorbike", <<2, 3, 4>>), MassDen \div 4),
           DryMass(Comp("CombustionEngine", <<5>>, 0, 0, 8 * Unit, -INF, INF, NoW),
                   MassDen \div 4),
           DryMass(Comp("ElectricMotor", <<6>>, 0, -2 * Unit, 2 * Unit, -INF, INF, NoW),
                   MassDen \div 4),
           Brake,
           Fuel(Chemical(8 * Unit, FALSE, FALSE), 8 * Unit),
           Fuel(Electrical(0, -INF, INF, 2 * Unit, FALSE, FALSE), 8 * Unit)>>
    [] c = "Idle" ->
         <<DryMass(Plain("Motorbike", <<2, 3>>), 4 * MassDen),
           Comp("CombustionEngine", <<4>>, ZeroAtW, Unit, 3 * Unit, -INF, INF, NoW),
           Brake,
           Chemical(8 * Unit, FALSE, FALSE)>>
    [] c = "Bare" ->
         <<Bike(<<2, 3>>),
           Comp("MechanicalComponent", <<>>, 1, -Unit, 3 * Unit, -INF, INF, NoW),
           Plain("ElectricalComponent", <<>>)>>

VARIABLES cfg, tree, remaining, refuels, steps, pc, qnode, qdemand, qdt, qw,
          delivered, report, trace, applied, ts, achieved_speed, entry,
          run, fn, build

\* the motorbike, its sources and the call of the solver in progress
timestep_vars ==
  <<cfg, tree, remaining, refuels, steps, pc, qnode, qdemand, qdt, qw,
    delivered, report, trace, applied, ts, achieved_speed, entry>>

vars == <<cfg, tree, remaining, refuels, steps, pc, qnode, qdemand, qdt, qw,
          delivered, report, trace, applied, ts, achieved_speed, entry,
          run, fn, build>>

\* the component objects the constructors built; no operation rebuilds them
Tree == tree
Nodes == DOMAIN Tree

IsSourceKind(k) == k \in {"ChemicalSource", "ElectricalSource"}
Sources == {n \in Nodes : IsSourceKind(Tree[n].kind)}

\* is_mechanical / is_electrical of the class hierarchy
is_mechanical(k) ==
  k \in {"Motorbike", "MechanicalComponent", "CombustionEngine", "ElectricMotor",
         "MechanicalBrake", "ChemicalSource", "Gearbox"}

\* the classes deriving from MechanicalComponent use the torque-aware limits
TorqueAware(k) ==
  k \in {"MechanicalComponent", "CombustionEngine", "ElectricMotor", "MechanicalBrake",
         "Gearbox"}

\* variant: the override of ElectricMotor is missing
can_disable_engine_only(k) == k = "CombustionEngine"

\* CombustionEngine._can_disable, ElectricMotor._can_disable
can_disable(k) == k \in {"CombustionEngine", "ElectricMotor"}

\* ------------------------------------------------- efficiency definitions
\* ConstantEfficiency with ratio 1 / Pow2(e); at ratio 0.0 of a table the
\* division is numpy's: x / 0.0 is inf for x > 0 and nan for x = 0
calculate_energy_required(e, d) ==
  IF e = ZeroAtW THEN (IF d > 0 THEN INF ELSE IF d = 0 THEN NAN ELSE 0)
  ELSE IF d >= 0 THEN d * Pow2(e) ELSE d \div Pow2(e)

\* variant: the forward transform divides by the ratio
calculate_energy_demand_gaining(e, r) ==
  IF r >= 0 THEN r * Pow2(e) ELSE r \div Pow2(e)

calculate_energy_demand(e, r) ==
  IF e = ZeroAtW THEN (IF r >= 0 THEN 0 ELSE -INF)
  ELSE IF r >= 0 THEN r \div Pow2(e) ELSE r * Pow2(e)

ExactRequired(e, d) == d >= 0 \/ d % Pow2(e) = 0
ExactDemand(e, r) == r < 0 \/ r % Pow2(e) = 0

\* ------------------------------------------------------------ power limits
\* AbstractComponent / MechanicalComponent._calculate_minimum_power_generation;
\* inf * 0 is nan, and max(x, nan) is x
calculate_minimum_power_generation(n, w) ==
  LET c == Tree[n] IN
  IF ~TorqueAware(c.kind) \/ w = NoW THEN c.minP
  ELSE IF IsInf(c.minT) THEN (IF w = 0 THEN c.minP ELSE Max(c.minP, c.minT))
  ELSE Max(c.minP, c.minT * w)

calculate_maximum_power_generation(n, w) ==
  LET c == Tree[n] IN
  IF ~TorqueAware(c.kind) \/ w = NoW THEN c.maxP
  ELSE IF IsInf(c.maxT) THEN (IF w = 0 THEN c.maxP ELSE Min(c.maxP, c.maxT))
  ELSE Min(c.maxP, c.maxT * w)

\* variant: the demand is passed on as it came
power_limited_energy_demand_unclamped(n, d, dt, w) == d

\* lines 385-399: np.clip of the demand to the limits times delta_time
power_limited_energy_demand(n, d, dt, w) ==
  Clip(d, TimesDt(calculate_minimum_power_generation(n, w), dt),
          TimesDt(calculate_maximum_power_generation(n, w), dt))

\* ------------------------------------------------------------------ reports
RECURSIVE SumOver(_, _)
SumOver(f, S) ==
  IF S = {} THEN 0
  ELSE LET x == CHOOSE y \in S : TRUE IN f[x] + SumOver(f, S \ {x})

SumValues(f) == SumOver(f, DOMAIN f)

\* dict.update
Update(r1, r2) ==
  [k \in DOMAIN r1 \cup DOMAIN r2 |-> IF k \in DOMAIN r2 THEN r2[k] ELSE r1[k]]

Range(s) == {s[i] : i \in DOMAIN s}

RECURSIVE Subtree(_)
Subtree(n) == {n} \cup UNION {Subtree(c) : c \in Range(Tree[n].children)}

\* variant: the zeroed report holds the node alone
zeroed_own_entry_only(n) == [k \in {n} |-> 0]

RECURSIVE zeroed_child_energy_delivered_report(_)
zeroed_child_energy_delivered_report(n) ==
  LET ch == Tree[n].children
      F[i \in 0..Len(ch)] ==
        IF i = 0 THEN [k \in {n} |-> 0]
        ELSE Update(F[i - 1], zeroed_child_energy_delivered_report(ch[i]))
  IN F[Len(ch)]

\* ------------------------------------------------------------ energy source
consumed_energy_capacity(n, cap) == Tree[n].initial - cap[n]

\* variant: the clip against the remaining capacity is left out
calculate_energy_available_unclipped(n, cap, d) ==
  IF d < -consumed_energy_capacity(n, cap) THEN -consumed_energy_capacity(n, cap)
  ELSE d

\* variant: the floor at the consumed capacity is left out
calculate_energy_available_unfloored(n, cap, d) ==
  IF d > cap[n] /\ ~(Tree[n].allowNeg \/ Tree[n].allowRefuel) THEN cap[n]
  ELSE d

calculate_energy_available(n, cap, d) ==
  IF d > cap[n] /\ ~(Tree[n].allowNeg \/ Tree[n].allowRefuel) THEN cap[n]
  ELSE IF d < -consumed_energy_capacity(n, cap) THEN -consumed_energy_capacity(n, cap)
  ELSE d

\* variant: the query itself draws the energy from the capacity
source_query_capacity_mutating(n, cap, energy_available) ==
  [cap EXCEPT ![n] = @ - energy_available]

\* the capacities after a query of source n: the query assigns nothing
source_query_capacity(n, cap, energy_available) == cap

\* The threaded state st: cap (capacity of every source), calls (the
\* invocations of calculate_energy_delivered, in order), passes (passes of
\* the relaxation loop in the last invocation of each node), exact, capped
\* (a loop was cut at MaxPasses: the call has not returned, and its callers
\* do nothing more), err (an exception was raised).
source_calculate_energy_delivered(n, d, dt, w, st) ==
  LET c == Tree[n]
      pl == power_limited_energy_demand(n, d, dt, w)
      energy_required == calculate_energy_required(c.eff, pl)
      energy_available == calculate_energy_available(n, st.cap, energy_required)
      energy_delivered == calculate_energy_demand(c.eff, energy_available)
  IN [del |-> energy_delivered,
      rep |-> [k \in {n} |-> energy_delivered],
      st |-> [st EXCEPT
                !.cap = source_query_capacity(n, st.cap, energy_available),
                !.exact = @ /\ ExactRequired(c.eff, pl)
                            /\ ExactDemand(c.eff, energy_available)]]

\* AbstractEnergySource.apply_energy_capacity_transaction: the new capacity
\* and the number of refuel events printed
source_apply_energy_capacity_transaction(n, rem, d) ==
  IF Abs(d) > Tol
  THEN LET energy_required == calculate_energy_required(Tree[n].eff, d)
           r == rem - energy_required
       IN IF r < 0 /\ Tree[n].allowRefuel
          THEN [remaining |-> r + Tree[n].initial, refuel |-> 1]
          ELSE [remaining |-> r, refuel |-> 0]
  ELSE [remaining |-> rem, refuel |-> 0]

\* ---------------------------------------------------------------- component
\* the invocations of calculate_energy_delivered: node, demand, angular velocity
Logged(st, n, d, w) == [st EXCEPT !.calls = Append(@, <<n, d, w>>)]

RECURSIVE calculate_energy_delivered(_, _, _, _, _)
RECURSIVE relaxation_loop(_, _, _, _, _, _, _, _, _, _)
RECURSIVE relaxation_pass(_, _, _, _, _, _, _, _)

\* variant: the child's report is not merged into energy_delivered_report
relaxation_pass_stale_report(n, target, dt, cw, i, imm, rep, st) ==
  LET ch == Tree[n].children IN
  IF i > Len(ch) \/ st.err \/ st.capped THEN [imm |-> imm, rep |-> rep, st |-> st]
  ELSE LET c == ch[i]
           remaining_energy_required == Minus(target, SumValues(imm) - imm[c])
           r == calculate_energy_delivered(c, remaining_energy_required, dt, cw, st)
       IN relaxation_pass(n, target, dt, cw, i + 1,
                          [imm EXCEPT ![c] = r.del], rep, r.st)

\* variant: every child is asked for the whole target
relaxation_pass_whole_target(n, target, dt, cw, i, imm, rep, st) ==
  LET ch == Tree[n].children IN
  IF i > Len(ch) \/ st.err \/ st.capped THEN [imm |-> imm, rep |-> rep, st |-> st]
  ELSE LET c == ch[i]
           r == calculate_energy_delivered(c, target, dt, cw, st)
       IN relaxation_pass(n, target, dt, cw, i + 1,
                          [imm EXCEPT ![c] = r.del], Update(rep, r.rep), r.st)

\* one pass of the for loop over child_components, from child index i on
relaxation_pass(n, target, dt, cw, i, imm, rep, st) ==
  LET ch == Tree[n].children IN
  IF i > Len(ch) \/ st.err \/ st.capped THEN [imm |-> imm, rep |-> rep, st |-> st]
  ELSE LET c == ch[i]
           energy_delivered_excluding_child_component == SumValues(imm) - imm[c]
           remaining_energy_required ==
             Minus(target, energy_delivered_excluding_child_component)
           r == calculate_energy_delivered(c, remaining_energy_required, dt, cw, st)
       IN relaxation_pass(n, target, dt, cw, i + 1,
                          [imm EXCEPT ![c] = r.del], Update(rep, r.rep), r.st)

\* abs(cur - prev) < 1e0 on floats: inf - inf is nan, and no comparison with
\* inf or nan is below the tolerance
Settled(cur, prev) == ~IsInf(cur) /\ ~IsInf(prev) /\ Abs(cur - prev) < Tol

\* variant: the loop stops on the stall test alone
relaxation_loop_stall_only(n, target, dt, cw, imm, rep, st, cur, prev, k) ==
  IF st.err \/ st.capped \/ Settled(cur, prev)
  THEN [imm |-> imm, rep |-> rep, st |-> [st EXCEPT !.passes[n] = k]]
  ELSE IF k >= MaxPasses
  THEN [imm |-> imm, rep |-> rep,
        st |-> [st EXCEPT !.passes[n] = k, !.capped = TRUE]]
  ELSE LET r == relaxation_pass(n, target, dt, cw, 1, imm, rep, st)
       IN relaxation_loop(n, target, dt, cw, r.imm, r.rep, r.st,
                          Minus(target, SumValues(r.imm)), cur, k + 1)

\* the while loop: cur / prev are current / previous_delta_to_energy_target
relaxation_loop(n, target, dt, cw, imm, rep, st, cur, prev, k) ==
  IF st.err \/ st.capped \/ Abs(cur) < Tol \/ Settled(cur, prev)
  THEN [imm |-> imm, rep |-> rep, st |-> [st EXCEPT !.passes[n] = k]]
  ELSE IF k >= MaxPasses
  THEN [imm |-> imm, rep |-> rep,
        st |-> [st EXCEPT !.passes[n] = k, !.capped = TRUE]]
  ELSE LET r == relaxation_pass(n, target, dt, cw, 1, imm, rep, st)
       IN relaxation_loop(n, target, dt, cw, r.imm, r.rep, r.st,
                          Minus(target, SumValues(r.imm)), cur, k + 1)

\* variant: the node reports the transform of its target, not of the sum
aggregate_target(n, target, imm) ==
  calculate_energy_demand(Tree[n].eff, target)

\* lines 443-446: the forward transform of what the children delivered
aggregate_energy_delivered(n, target, imm) ==
  calculate_energy_demand(Tree[n].eff, SumValues(imm))

\* np.argwhere(...)[0][0] of an empty selection raises IndexError
NoGear == 0

\* Gearbox._calculate_child_gearing_ratio
gearbox_calculate_child_gearing_ratio(n, w) ==
  LET c == Tree[n]
      child_angular_velocity_overspeed ==
        [i \in DOMAIN c.ratios |-> w * c.ratios[i] - c.upshift[i]]
      below == {i \in DOMAIN c.ratios : child_angular_velocity_overspeed[i] < 0}
  IN IF below = {} THEN NoGear
     ELSE c.ratios[CHOOSE i \in below : \A j \in below : i <= j]

\* variant: the children are given the node's own angular velocity
calculate_child_gearing_ratio_direct(n, w) == 1

\* AbstractComponent._calculate_child_gearing_ratio and its Gearbox override
calculate_child_gearing_ratio(n, w) ==
  IF Tree[n].kind = "Gearbox" THEN gearbox_calculate_child_gearing_ratio(n, w)
  ELSE Tree[n].gearing

component_calculate_energy_delivered(n, d, dt, w, st) ==
  LET c == Tree[n] IN
  IF can_disable(c.kind) /\ d = 0
  THEN [del |-> 0, rep |-> zeroed_child_energy_delivered_report(n), st |-> st]
  ELSE
    LET mech == is_mechanical(c.kind)
        \* a fixed angular velocity with one passed in raises ValueError;
        \* gearing * None raises TypeError
        conflict == mech /\ (IF c.fixedW # NoW THEN w # NoW ELSE w = NoW)
        cw == IF ~mech THEN NoW ELSE IF c.fixedW # NoW THEN c.fixedW ELSE w
        gear == IF mech /\ ~conflict THEN calculate_child_gearing_ratio(n, cw) ELSE 1
        child_angular_velocity == IF ~mech THEN NoW ELSE gear * cw
        raises == conflict \/ gear = NoGear
    IN IF raises
       THEN [del |-> 0, rep |-> zeroed_child_energy_delivered_report(n),
             st |-> [st EXCEPT !.err = TRUE]]
       ELSE
         LET pl == power_limited_energy_demand(n, d, dt, cw)
             target_energy_required == calculate_energy_required(c.eff, pl)
             r == relaxation_loop(n, target_energy_required, dt, child_angular_velocity,
                                  [k \in Range(c.children) |-> 0],
                                  zeroed_child_energy_delivered_report(n),
                                  [st EXCEPT !.exact = @ /\ ExactRequired(c.eff, pl)],
                                  INF, -INF, 0)
             total == SumValues(r.imm)
             energy_delivered == aggregate_energy_delivered(n, target_energy_required, r.imm)
         IN [del |-> energy_delivered,
             rep |-> Update(r.rep, [k \in {n} |-> energy_delivered]),
             st |-> [r.st EXCEPT !.exact = @ /\ ExactDemand(c.eff, total)]]

\* -------------------------------------------------------------------- brake
\* variant: the override is missing and the brake runs the general algorithm
brake_as_component(n, d, dt, w, st) ==
  component_calculate_energy_delivered(n, d, dt, w, st)

\* MechanicalBrake.calculate_energy_delivered
brake_calculate_energy_delivered(n, d, dt, w, st) ==
  LET energy_delivered == Min(d, 0)
  IN [del |-> energy_delivered, rep |-> [k \in {n} |-> energy_delivered], st |-> st]

\* dynamic dispatch on the class of node n
calculate_energy_delivered(n, d, dt, w, st) ==
  LET k == Tree[n].kind
      st1 == Logged(st, n, d, w)
  IN IF k = "MechanicalBrake" THEN brake_calculate_energy_delivered(n, d, dt, w, st1)
     ELSE IF IsSourceKind(k) THEN source_calculate_energy_delivered(n, d, dt, w, st1)
     ELSE component_calculate_energy_delivered(n, d, dt, w, st1)

NoTrace == [calls |-> <<>>, passes |-> [n \in Nodes |-> 0],
            exact |-> TRUE, capped |-> FALSE, err |-> FALSE]

Fresh(cap) == [cap |-> cap, calls |-> <<>>, passes |-> [n \in Nodes |-> 0],
               exact |-> TRUE, capped |-> FALSE, err |-> FALSE]

TraceOf(st) == [calls |-> st.calls, passes |-> st.passes,
                exact |-> st.exact, capped |-> st.capped, err |-> st.err]

\* ----------------------------------------------------------------- Motorbike
\* the items of the report of node n, in the dict's insertion order
RECURSIVE Preorder(_)
Preorder(n) ==
  LET ch == Tree[n].children
      F[i \in 0..Len(ch)] == IF i = 0 THEN <<n>> ELSE F[i - 1] \o Preorder(ch[i])
  IN F[Len(ch)]

\* variant: the elif branch for ElectricalSource is missing
commits_chemical_only(n) == Tree[n].kind = "ChemicalSource"

\* the isinstance tests of motorbike.apply_energy_capacity_transaction
commits(n) == Tree[n].kind = "ChemicalSource" \/ Tree[n].kind = "ElectricalSource"

\* motorbike.apply_energy_capacity_transaction(energy_delivered_report):
\* w is [remaining, refuels, applied]; applied logs the method calls made
RECURSIVE apply_energy_capacity_transaction(_, _, _, _)
apply_energy_capacity_transaction(rep, items, i, w) ==
  IF i > Len(items) THEN w
  ELSE LET n == items[i] IN
       IF n \in DOMAIN rep /\ commits(n)
       THEN LET t == source_apply_energy_capacity_transaction(n, w.remaining[n], rep[n])
            IN apply_energy_capacity_transaction(rep, items, i + 1,
                 [remaining |-> [w.remaining EXCEPT ![n] = t.remaining],
                  refuels |-> [w.refuels EXCEPT ![n] = @ + t.refuel],
                  applied |-> Append(w.applied, <<n, rep[n]>>)])
       ELSE apply_energy_capacity_transaction(rep, items, i + 1, w)

\* ------------------------------------------------------------------- mass
\* remaining_fuel_mass / the initial fuel mass of a source
remaining_fuel_mass(n, cap) == (cap[n] * MassDen) \div Tree[n].energy_density
initial_fuel_mass(n) == (Tree[n].initial * MassDen) \div Tree[n].energy_density

\* variant: the masses of the grandchildren are left out
RECURSIVE mass_of_children_only(_, _)
mass_of_children_only(n, cap) ==
  LET ch == Tree[n].children
      F[i \in 0..Len(ch)] ==
        IF i = 0 THEN 0 ELSE F[i - 1] + Tree[ch[i]].dry_mass
  IN Tree[n].dry_mass + F[Len(ch)]

\* AbstractComponent.mass, ChemicalSource.mass, ElectricalSource.mass
RECURSIVE mass(_, _)
mass(n, cap) ==
  LET ch == Tree[n].children
      F[i \in 0..Len(ch)] ==
        IF i = 0 THEN 0 ELSE F[i - 1] + mass(ch[i], cap)
      own == Tree[n].dry_mass + F[Len(ch)]
  IN IF Tree[n].kind = "ChemicalSource" THEN own + Max(remaining_fuel_mass(n, cap), 0)
     ELSE IF Tree[n].kind = "ElectricalSource" THEN own + initial_fuel_mass(n)
     ELSE own

\* -------------------------------------------------------------- energy sinks
\* A speed v is held as its signed square v * |v|, in units of 1 / Unit
\* (m/s)^2: current_speed ** 2 is Abs of it, speeds compare as their signed
\* squares do, and an energy of e model units over a kinetic energy
\* coefficient of 1.0 (a mass of 2.0) is a difference of e between two
\* squares.  The wheels have no inertia: the kinetic energy coefficient is
\* 0.5 * mass.

\* 0.5 * frontal_area * coefficient_of_drag * 1.18
aerodynamic_drag_coefficient == 1

\* ratio * coefficient * 9.81 summed over the two wheels, as the divisor of
\* the mass: 0.5 model units of energy per unit of distance at a mass of 2.0
rolling_resistance_divisor == 4

\* AbstractInertiaSink.calculate_energy_required, summed over _inertia_sinks
inertia_energy_required(current_mass, current_speed, target_next_speed) ==
  (current_mass * (Abs(target_next_speed) - Abs(current_speed))) \div (2 * MassDen)

aerodynamic_drag_energy_required(current_speed, delta_distance) ==
  aerodynamic_drag_coefficient * Abs(current_speed) * delta_distance

rolling_resistance_energy_required(current_mass, delta_distance) ==
  (current_mass * Unit * delta_distance) \div (rolling_resistance_divisor * MassDen)

\* mass * 9.81 * delta_elevation, 9.81 being one energy unit per unit of mass
\* and of elevation
gravitational_energy_required(current_mass, delta_elevation) ==
  (current_mass * Unit * delta_elevation) \div MassDen

\* Motorbike.calculate_energy_required: the sum over energy_sinks
motorbike_calculate_energy_required(current_mass, current_speed, target_next_speed, delta_distance, delta_elevation) ==
  inertia_energy_required(current_mass, current_speed, target_next_speed)
  + gravitational_energy_required(current_mass, delta_elevation)
  + aerodynamic_drag_energy_required(current_speed, delta_distance)
  + rolling_resistance_energy_required(current_mass, delta_distance)

\* the speed in m/s of a signed square (rounded down), and whether it is exact
SpeedOf(sq) == CHOOSE n \in 0..Abs(sq) : n * n * Unit <= Abs(sq) /\ Abs(sq) < (n + 1) * (n + 1) * Unit
ExactSpeed(sq) == SpeedOf(sq) * SpeedOf(sq) * Unit = Abs(sq)

\* current_speed / nominal_radius of the rear wheel, of radius 1.0
current_angular_velocity(current_speed) ==
  IF current_speed < 0 THEN -SpeedOf(current_speed) ELSE SpeedOf(current_speed)

\* variant: the shortfall of the powertrain is not taken off
inertial_energy_delivered_in_full(inertial_energy_required, total_energy_required, total_energy_delivered) ==
  inertial_energy_required

\* lines 247-249 of calculate_achieved_speed
inertial_energy_delivered(inertial_energy_required, total_energy_required, total_energy_delivered) ==
  inertial_energy_required - (total_energy_required - total_energy_delivered)

\* variant: the test of lines 303-306 is missing
calculate_next_speed_unchecked(current_mass, current_speed, available_energy, demanded_energy) ==
  [next_speed |-> Abs(current_speed) + (available_energy * 2 * MassDen) \div current_mass,
   raised |-> FALSE]

\* Motorbike.calculate_next_speed: the signed square root, and the stall error
calculate_next_speed(current_mass, current_speed, available_energy, demanded_energy) ==
  LET delta_speed_squared == (available_energy * 2 * MassDen) \div current_mass
      radicand == Abs(current_speed) + delta_speed_squared
      next_speed == IF radicand >= 0 THEN radicand ELSE -(-radicand)
  IN [next_speed |-> next_speed,
      raised |-> next_speed <= 0 /\ demanded_energy > 0]

\* ------------------------------------------------------------------- inputs
Demands == {-6 * Unit, -2 * Unit, -Unit, -(Unit \div 2), 0, Unit \div 2, Unit, 2 * Unit, 5 * Unit, 9 * Unit}
DeltaTimes == {1, 2}
Omegas == {0, 1}

\* speeds of 0, 1, 2 and 3 m/s, as signed squares
CurrentSpeeds == {0, Unit, 4 * Unit}
TargetSpeeds == {0, Unit, 4 * Unit, 9 * Unit}
DeltaDistances == {1}
DeltaElevations == {-1, 0, 1}

Root == 1

\* the locals of calculate_achieved_speed outside a timestep
NoTimestep ==
  [current_speed |-> 0, target_next_speed |-> 0, delta_distance |-> 0,
   delta_elevation |-> 0, inertial_energy_required |-> 0]

\* no simulation run is in progress: calculate_achieved_speed and
\* calculate_energy_delivered are called directly
NoRun == [status |-> "off", point |-> 0, last |-> 0, warnings |-> <<>>,
          success |-> FALSE]

\* no efficiency definition is under evaluation
NoFn == [stage |-> "off", kind |-> "constant", ratio |-> 0, table |-> <<>>,
         w |-> 0, x |-> 0, required |-> [k |-> "num", v |-> 0],
         demanded |-> [k |-> "num", v |-> 0]]

\* no object is under construction
NoBuild == [parts |-> <<>>, bike |-> 0, op |-> "none", args |-> <<>>,
            outcome |-> "none"]

\* the motorbike of configuration c after construction
Built(c) ==
  /\ cfg = c
  /\ tree = TreeOf(c)
  /\ remaining = [n \in Sources |-> Tree[n].initial]
  /\ entry = remaining
  /\ refuels = [n \in Sources |-> 0]
  /\ steps = 0
  /\ pc = "idle"
  /\ qnode = Root
  /\ qdemand = 0
  /\ qdt = 1
  /\ qw = 0
  /\ delivered = 0
  /\ report = [n \in {} |-> 0]
  /\ trace = NoTrace
  /\ applied = <<>>
  /\ ts = NoTimestep
  /\ achieved_speed = 0

Init ==
  /\ \E c \in Configs : Built(c)
  /\ run = NoRun
  /\ fn = NoFn
  /\ build = NoBuild

\* a direct call of calculate_energy_delivered on any node of the tree
Query(n, d, dt, w) ==
  /\ pc = "idle"
  /\ steps < MaxSteps
  /\ LET r == calculate_energy_delivered(n, d, dt, w, Fresh(remaining)) IN
       /\ remaining' = r.st.cap
       /\ delivered' = r.del
       /\ report' = r.rep
       /\ trace' = TraceOf(r.st)
       /\ pc' = IF r.st.capped THEN "hung" ELSE "queried"
  /\ qnode' = n /\ qdemand' = d /\ qdt' = dt /\ qw' = w
  /\ applied' = <<>>
  /\ entry' = remaining
  /\ UNCHANGED <<build, run, fn, cfg, tree, refuels, steps, ts, achieved_speed>>

\* the caller drops the result of a call
Cleared ==
  /\ qnode' = Root /\ qdemand' = 0 /\ qdt' = 1 /\ qw' = 0
  /\ delivered' = 0
  /\ report' = [n \in {} |-> 0]
  /\ trace' = NoTrace
  /\ applied' = <<>>
  /\ ts' = NoTimestep
  /\ achieved_speed' = 0
  /\ entry' = remaining

\* the call has returned or raised, and the caller goes on
Return ==
  /\ pc \in {"queried", "returned", "raised"}
  /\ pc' = "idle"
  /\ Cleared
  /\ UNCHANGED <<build, run, fn, cfg, tree, remaining, refuels, steps>>

\* Motorbike.calculate_achieved_speed up to the return of the solver
\* (lines 204-231); an exception of the solver leaves the method
Solve(current_speed, target_next_speed, delta_time, delta_distance, delta_elevation) ==
  /\ pc = "idle"
  /\ steps < MaxSteps
  /\ steps' = steps + 1
  /\ LET total_energy_required ==
           motorbike_calculate_energy_required(mass(Root, remaining), current_speed,
                                               target_next_speed, delta_distance,
                                               delta_elevation)
         w == current_angular_velocity(current_speed)
         r == calculate_energy_delivered(Root, total_energy_required, delta_time, w,
                [Fresh(remaining) EXCEPT !.exact = ExactSpeed(current_speed)])
     IN
       /\ remaining' = r.st.cap
       /\ delivered' = r.del
       /\ report' = r.rep
       /\ trace' = TraceOf(r.st)
       /\ pc' = IF r.st.err THEN "raised" ELSE IF r.st.capped THEN "hung" ELSE "solved"
       /\ qnode' = Root /\ qdemand' = total_energy_required
       /\ qdt' = delta_time /\ qw' = w
  /\ ts' = [current_speed |-> current_speed,
            target_next_speed |-> target_next_speed,
            delta_distance |-> delta_distance,
            delta_elevation |-> delta_elevation,
            inertial_energy_required |->
              inertia_energy_required(mass(Root, remaining), current_speed,
                                      target_next_speed)]
  /\ applied' = <<>>
  /\ entry' = remaining
  /\ UNCHANGED <<build, run, fn, cfg, tree, refuels, achieved_speed>>

\* line 232: the commit of the final report
Commit ==
  /\ pc = "solved"
  /\ LET w == apply_energy_capacity_transaction(report, Preorder(Root), 1,
                [remaining |-> remaining, refuels |-> refuels, applied |-> <<>>]) IN
       /\ remaining' = w.remaining
       /\ refuels' = w.refuels
       /\ applied' = w.applied
  /\ pc' = "committed"
  /\ UNCHANGED <<build, run, fn, cfg, tree, steps, qnode, qdemand, qdt, qw, delivered, report, trace,
                 ts, achieved_speed, entry>>

\* lines 234-258: the reporting row, the inertial energy delivered and the
\* next speed, returned or refused with the stall error
Finish ==
  /\ pc = "committed"
  /\ LET r == calculate_next_speed(mass(Root, remaining), ts.current_speed,
                  inertial_energy_delivered(ts.inertial_energy_required, qdemand, delivered),
                  ts.inertial_energy_required)
     IN /\ pc' = IF r.raised THEN "raised" ELSE "returned"
        /\ achieved_speed' = IF r.raised THEN 0 ELSE r.next_speed
  /\ UNCHANGED <<build, run, fn, cfg, tree, remaining, refuels, steps, qnode, qdemand, qdt, qw,
                 delivered, report, trace, applied, ts, entry>>

Next ==
  \/ \E n \in Nodes, d \in Demands, dt \in DeltaTimes, w \in Omegas \cup {NoW} :
       Query(n, d, dt, w)
  \/ Return
  \/ \E cs \in CurrentSpeeds, t \in TargetSpeeds, dt \in DeltaTimes,
        dd \in DeltaDistances, de \in DeltaElevations : Solve(cs, t, dt, dd, de)
  \/ Commit
  \/ Finish

Spec == Init /\ [][Next]_vars

\* the motorbikes with a node that shares its target between two suppliers
SharingConfigs == {"EV", "Hybrid", "Genset"}

InitPass ==
  /\ \E c \in SharingConfigs : Built(c)
  /\ run = NoRun
  /\ fn = NoFn
  /\ build = NoBuild

PassSpec == InitPass /\ [][Next]_vars

\* the same operations on the motorbike whose tank holds half of its mass
InitMass ==
  /\ Built("Tanker")
  /\ run = NoRun
  /\ fn = NoFn
  /\ build = NoBuild

MassSpec == InitMass /\ [][Next]_vars

\* the same operations on the motorbike whose engine has an efficiency table
\* of 0.0
InitLoop ==
  /\ Built("Idle")
  /\ run = NoRun
  /\ fn = NoFn
  /\ build = NoBuild

LoopSpec == InitLoop /\ [][Next]_vars


\* ----------------------------------------------------------- simulation run
\* SimulationRunner.simulate_motorcycle_on_track, lines 117-180 and 252: the
\* loop over the points of the track, one point after the first per step of
\* MaxSteps.  run.last is achieved_speeds[-1]; run.warnings holds the
\* warnings of the loop, each with its point.

\* line 118: achieved_speeds = [target_speeds[0]]
InitRun ==
  /\ \E c \in Configs : Built(c)
  /\ \E v \in CurrentSpeeds :
       run = [status |-> "running", point |-> 1, last |-> v, warnings |-> <<>>,
              success |-> FALSE]
  /\ fn = NoFn
  /\ build = NoBuild

\* times[i] - times[i - 1] of a point the loop skips (lines 127-133)
InvalidDeltaTimes == {0}

\* lines 127-133: the point is skipped
SkipPoint ==
  /\ run.status = "running" /\ pc = "idle"
  /\ run.point <= MaxSteps
  /\ \E delta_time \in InvalidDeltaTimes : delta_time <= 0 \/ delta_time > 300
  /\ run' = [run EXCEPT !.point = @ + 1]
  /\ UNCHANGED <<build, fn, timestep_vars>>

\* lines 137-143: the call of calculate_achieved_speed for the point
SimulatePoint ==
  /\ run.status = "running"
  /\ run.point <= MaxSteps
  /\ \E t \in TargetSpeeds, dt \in DeltaTimes, dd \in DeltaDistances,
        de \in DeltaElevations : Solve(run.last, t, dt, dd, de)

\* lines 145-151 after a return, lines 173-178 after an exception
record_point(r, state, target, speed) ==
  IF state = "raised"
  THEN [r EXCEPT !.warnings = Append(@, <<"Simulation error", r.point>>),
                 !.point = @ + 1]
  ELSE IF speed < 0
  THEN [r EXCEPT !.last = Min(target, r.last),
                 !.warnings = Append(@, <<"Invalid speed", r.point>>),
                 !.point = @ + 1]
  ELSE [r EXCEPT !.last = speed, !.point = @ + 1]

RecordPoint ==
  /\ run.status = "running"
  /\ pc \in {"returned", "raised"}
  /\ run' = record_point(run, pc, ts.target_next_speed, achieved_speed)
  /\ pc' = "idle"
  /\ Cleared
  /\ UNCHANGED <<build, fn, cfg, tree, remaining, refuels, steps>>

\* lines 182-252: the loop is over and the metrics are computed
EndRun ==
  /\ run.status = "running" /\ pc = "idle"
  /\ run.point > MaxSteps
  /\ run' = [run EXCEPT !.status = "done", !.success = TRUE]
  /\ UNCHANGED <<build, fn, timestep_vars>>

NextRun ==
  \/ SkipPoint
  \/ SimulatePoint
  \/ Commit
  \/ Finish
  \/ RecordPoint
  \/ EndRun

RunSpec == InitRun /\ [][NextRun]_vars


\* ----------------------------------------------- efficiency definition classes
\* ConstantEfficiency and AngularVelocityEfficiency with any ratio: a ratio
\* is a number of EffDen-ths, a float is [k |-> "num", v |-> an integer],
\* [k |-> "inf"], [k |-> "-inf"] or [k |-> "nan"], and [k |-> "raise"] stands
\* for an exception.
EffDen == 8

Num(v) == [k |-> "num", v |-> v]

\* the test of both constructors: ratio > 1 or ratio < 0 raises ValueError
ratio_accepted(m) == ~(m > EffDen \/ m < 0)

\* a >= 0 on floats: False for nan
float_ge_zero(a) == a.k = "inf" \/ (a.k = "num" /\ a.v >= 0)

\* a * ratio: inf * 0 is nan
float_times(a, m) ==
  IF a.k = "num" THEN Num((a.v * m) \div EffDen)
  ELSE IF a.k = "nan" \/ m = 0 THEN [k |-> "nan"]
  ELSE a

\* a / ratio: by a Python float 0.0 ZeroDivisionError; by a numpy value 0.0
\* inf, -inf or nan
float_divide(a, m, numpy) ==
  IF m # 0
  THEN (IF a.k = "num" THEN Num((a.v * EffDen) \div m) ELSE a)
  ELSE IF ~numpy THEN [k |-> "raise"]
  ELSE IF a.k = "num"
  THEN (IF a.v > 0 THEN [k |-> "inf"]
        ELSE IF a.v < 0 THEN [k |-> "-inf"] ELSE [k |-> "nan"])
  ELSE a

\* scipy interp1d(kind="linear", bounds_error=True, assume_sorted=False) of a
\* table of <<angular velocity, ratio>> points at w: -1 outside the table
efficiency_lookup(table, w) ==
  LET P == Range(table)
      below == {q \in P : q[1] <= w}
      above == {q \in P : q[1] >= w}
  IN IF below = {} \/ above = {} THEN -1
     ELSE LET lo == CHOOSE q \in below : \A o \in below : o[1] <= q[1]
              hi == CHOOSE q \in above : \A o \in above : q[1] <= o[1]
          IN IF lo[1] = hi[1] THEN lo[2]
             ELSE lo[2] + ((hi[2] - lo[2]) * (w - lo[1])) \div (hi[1] - lo[1])

\* the ratio the two methods of definition f use at angular velocity w, -1
\* when they raise ValueError (no angular velocity, or one outside the table)
efficiency_ratio_at(f, w) ==
  IF f.kind = "constant" THEN f.ratio
  ELSE IF w = NoW THEN -1
  ELSE efficiency_lookup(f.table, w)

\* variant: the forward transform is applied in both directions
efficiency_calculate_energy_demand_forward(f, energy_required, w) ==
  LET m == efficiency_ratio_at(f, w) IN
  IF m < 0 \/ energy_required.k = "raise" THEN [k |-> "raise"]
  ELSE float_times(energy_required, m)

\* ConstantEfficiency / AngularVelocityEfficiency.calculate_energy_required
efficiency_calculate_energy_required(f, energy_demand, w) ==
  LET m == efficiency_ratio_at(f, w) IN
  IF m < 0 \/ energy_demand.k = "raise" THEN [k |-> "raise"]
  ELSE IF float_ge_zero(energy_demand)
  THEN float_divide(energy_demand, m, f.kind = "table")
  ELSE float_times(energy_demand, m)

\* ConstantEfficiency / AngularVelocityEfficiency.calculate_energy_demand
efficiency_calculate_energy_demand(f, energy_required, w) ==
  LET m == efficiency_ratio_at(f, w) IN
  IF m < 0 \/ energy_required.k = "raise" THEN [k |-> "raise"]
  ELSE IF float_ge_zero(energy_required)
  THEN float_times(energy_required, m)
  ELSE float_divide(energy_required, m, f.kind = "table")

\* ratios from -1/8 to 9/8, tables over the angular velocities 0 and 2 in
\* either order, energies that every accepted ratio divides
Ratios == -1..(EffDen + 1)
TableRatios == {0, 4, 6, 8}
Tables ==
  {<<<<0, a>>, <<2, b>>>> : a, b \in TableRatios}
  \cup {<<<<2, b>>, <<0, a>>>> : a, b \in TableRatios}
  \cup {<<<<0, 10>>, <<2, 8>>>>}
Energies == {-1680, -840, 0, 840, 1680}
LookupOmegas == {NoW, 0, 1, 2, 3}

InitEff ==
  /\ Built("Bare")
  /\ run = NoRun
  /\ build = NoBuild
  /\ \E x \in Energies :
       \/ \E m \in Ratios :
            fn = [NoFn EXCEPT !.stage = "new", !.kind = "constant", !.ratio = m,
                              !.w = NoW, !.x = x]
       \/ \E t \in Tables, w \in LookupOmegas :
            fn = [NoFn EXCEPT !.stage = "new", !.kind = "table", !.table = t,
                              !.w = w, !.x = x]

\* __init__ of the efficiency definition
Construct ==
  /\ fn.stage = "new"
  /\ fn' = [fn EXCEPT !.stage =
              IF fn.kind = "constant"
              THEN (IF ratio_accepted(fn.ratio) THEN "built" ELSE "rejected")
              ELSE (IF \A i \in DOMAIN fn.table : ratio_accepted(fn.table[i][2])
                    THEN "built" ELSE "rejected")]
  /\ UNCHANGED <<build, run, timestep_vars>>

\* calculate_energy_required(x, w)
ApplyRequired ==
  /\ fn.stage = "built"
  /\ LET r == efficiency_calculate_energy_required(fn, Num(fn.x), fn.w) IN
       fn' = [fn EXCEPT !.required = r,
                        !.stage = IF r.k = "raise" THEN "raised" ELSE "required"]
  /\ UNCHANGED <<build, run, timestep_vars>>

\* calculate_energy_demand of the result, at the same angular velocity
ApplyDemand ==
  /\ fn.stage = "required"
  /\ LET r == efficiency_calculate_energy_demand(fn, fn.required, fn.w) IN
       fn' = [fn EXCEPT !.demanded = r,
                        !.stage = IF r.k = "raise" THEN "raised" ELSE "demanded"]
  /\ UNCHANGED <<build, run, timestep_vars>>

NextEff ==
  \/ Construct
  \/ ApplyRequired
  \/ ApplyDemand

EffSpec == InitEff /\ [][NextEff]_vars


\* ---------------------------------------------------------------- construction
\* The constructors of the sources, of the components and of the Motorbike.
\* build.parts are the objects constructed so far, an object being known by
\* its index (its id); children are indices of earlier objects, and the same
\* object may be handed to several constructors.  build.op, build.args and
\* build.outcome are the last constructor call and whether it raised;
\* build.bike is the index of the Motorbike once one is constructed.  The
\* Motorbike call is the last call of a construction, raised or not.
Part(kind, ch, neg, refuel) ==
  [kind |-> kind, children |-> ch, allowNeg |-> neg, allowRefuel |-> refuel]

is_electrical(k) ==
  k \in {"Motorbike", "ElectricalComponent", "ElectricMotor", "ElectricalSource"}

\* AbstractComponent._test_child_components_for_compatibility
child_components_compatible(parts, kind, ch) ==
  \A i \in DOMAIN ch :
    \/ is_electrical(kind) /\ is_electrical(parts[ch[i]].kind)
    \/ is_mechanical(kind) /\ is_mechanical(parts[ch[i]].kind)

\* AbstractComponent.ids: the id of the object, then the ids of its children
RECURSIVE ids(_, _)
ids(parts, i) ==
  LET ch == parts[i].children
      F[j \in 0..Len(ch)] == IF j = 0 THEN <<i>> ELSE F[j - 1] \o ids(parts, ch[j])
  IN F[Len(ch)]

\* variant: the constructor does not test the ids
unique_ids_untested(parts, i) == TRUE

\* Motorbike.test_unique_ids: len(self.ids) != len(set(self.ids)) raises
unique_ids(parts, i) ==
  Len(ids(parts, i)) = Cardinality(Range(ids(parts, i)))

\* variant: the test of the two flags is missing
source_flags_accepted_always(neg, refuel) == TRUE

\* AbstractEnergySource.__init__, lines 43-46
source_flags_accepted(neg, refuel) == ~(neg /\ refuel)

SourceKinds == {"ChemicalSource", "ElectricalSource"}
ComponentKinds == {"MechanicalComponent", "ElectricalComponent"}

\* the child_components a constructor may be given: up to two of the objects
\* constructed so far, in any order, the same object twice included
ChildLists(parts) ==
  {<<>>} \cup {<<a>> : a \in DOMAIN parts}
         \cup {<<a, b>> : a \in DOMAIN parts, b \in DOMAIN parts}

Constructed(kind, ch, neg, refuel, ok) ==
  [build EXCEPT !.parts = IF ok THEN Append(@, Part(kind, ch, neg, refuel)) ELSE @,
                !.op = kind, !.args = <<ch, neg, refuel>>,
                !.outcome = IF ok THEN "object" ELSE "ValueError"]

\* ChemicalSource(...) / ElectricalSource(...)
ConstructSource(kind, neg, refuel) ==
  /\ build.op # "Motorbike" /\ Len(build.parts) < MaxParts
  /\ build' = Constructed(kind, <<>>, neg, refuel, source_flags_accepted(neg, refuel))
  /\ UNCHANGED <<run, fn, timestep_vars>>

\* MechanicalComponent(child_components = ch) / ElectricalComponent(...)
ConstructComponent(kind, ch) ==
  /\ build.op # "Motorbike" /\ Len(build.parts) < MaxParts
  /\ build' = Constructed(kind, ch, FALSE, FALSE,
                          child_components_compatible(build.parts, kind, ch))
  /\ UNCHANGED <<run, fn, timestep_vars>>

\* Motorbike(child_components = ch): AbstractComponent.__init__, then
\* test_unique_ids on the object under construction
ConstructMotorbike(ch) ==
  /\ build.op # "Motorbike" /\ ch # <<>>
  /\ LET parts == Append(build.parts, Part("Motorbike", ch, FALSE, FALSE))
         ok == /\ child_components_compatible(build.parts, "Motorbike", ch)
               /\ unique_ids(parts, Len(parts))
     IN build' = [Constructed("Motorbike", ch, FALSE, FALSE, ok)
                    EXCEPT !.bike = IF ok THEN Len(parts) ELSE 0]
  /\ UNCHANGED <<run, fn, timestep_vars>>

InitBuild ==
  /\ Built("Bare")
  /\ run = NoRun
  /\ fn = NoFn
  /\ build = NoBuild

NextBuild ==
  \/ \E kind \in SourceKinds, neg \in BOOLEAN, refuel \in BOOLEAN :
       ConstructSource(kind, neg, refuel)
  \/ \E kind \in ComponentKinds, ch \in ChildLists(build.parts) :
       ConstructComponent(kind, ch)
  \/ \E ch \in ChildLists(build.parts) : ConstructMotorbike(ch)

BuildSpec == InitBuild /\ [][NextBuild]_vars

\* every division of the last solver run was exact, and no loop was cut
ArithmeticExact == trace.exact
LoopsComplete == ~trace.capped

\* ===================================================================== claims
HasResult == pc \in {"queried", "solved", "committed", "returned"} /\ ~trace.err

NoFlags(s) == ~Tree[s].allowNeg /\ ~Tree[s].allowRefuel

\* the calls of calculate_energy_delivered made on node n in the last run
CallsOn(n) == {i \in DOMAIN trace.calls : trace.calls[i][1] = n}

\* the method calls the commit made on source s
AppliedOn(s) == {i \in DOMAIN applied : applied[i][1] = s}

\* C1: a source with allow_negative_fuel = False and allow_refueling = False
\* keeps remaining_energy_capacity within [0, initial_energy_capacity] over
\* every sequence of committed timesteps.
C1_CapacityBounds ==
  \A s \in Sources :
    NoFlags(s) => (0 <= remaining[s] /\ remaining[s] <= Tree[s].initial)

\* a commit has drained a flag-less source to exactly 0 with a demand that
\* asked for more than it held
C1_Witness ==
  /\ pc = "committed"
  /\ \E s \in Sources :
       /\ NoFlags(s)
       /\ remaining[s] = 0
       /\ \E i \in CallsOn(s) :
            calculate_energy_required(Tree[s].eff, trace.calls[i][2]) > Tree[s].initial

\* C2: calculate_energy_delivered changes no remaining_energy_capacity, for
\* direct calls on any subtree and for the solver call of a timestep with all
\* its re-evaluations; only the commit changes a capacity.
C2_QueryIsPure ==
  [][remaining' # remaining => (pc = "solved" /\ pc' = "committed")]_vars

\* a run in which the relaxation loop asked one source at least twice, with
\* two different tentative demands, and the source delivered energy
C2_Witness ==
  /\ pc \in {"queried", "solved"}
  /\ ~trace.err
  /\ \E s \in Sources \cap DOMAIN report :
       /\ report[s] # 0
       /\ \E i, j \in CallsOn(s) : trace.calls[i][2] # trace.calls[j][2]

\* C3: in a timestep the commit calls apply_energy_capacity_transaction
\* exactly once on every ChemicalSource and ElectricalSource of the tree, with
\* the source's entry of the solver's final report, and no call is made before
\* the solver has returned.
C3_CommitOncePerSource ==
  /\ pc = "committed" =>
       /\ \A s \in Sources :
            /\ Cardinality(AppliedOn(s)) = 1
            /\ \A i \in AppliedOn(s) : applied[i][2] = report[s]
       /\ \A i \in DOMAIN applied : applied[i][1] \in Sources
  /\ pc \in {"idle", "queried", "solved"} => applied = <<>>

\* a committed timestep of a tree with a chemical and an electrical source
\* that both delivered energy
C3_Witness ==
  /\ pc = "committed"
  /\ \E s, t \in Sources :
       /\ Tree[s].kind = "ChemicalSource" /\ Tree[t].kind = "ElectricalSource"
       /\ report[s] # 0 /\ report[t] # 0
       /\ Len(applied) = 2

\* the energy a commit of the final report draws from source s
Required(s) == calculate_energy_required(Tree[s].eff, report[s])

IsCommit == pc = "solved" /\ pc' = "committed"

\* C4: for a source with allow_refueling = True, a transaction whose required
\* energy exceeds the remaining capacity leaves remaining = previous + initial
\* - required, never negative, and emits exactly one refuel event.
C4_RefuelWrap ==
  [][IsCommit =>
       \A s \in Sources :
         (Tree[s].allowRefuel /\ Required(s) > remaining[s]) =>
           /\ remaining'[s] = remaining[s] + Tree[s].initial - Required(s)
           /\ remaining'[s] >= 0
           /\ refuels'[s] = refuels[s] + 1]_vars

\* C5: whenever a source reports a non-zero delivered energy in the final
\* report, the commit changes its remaining capacity by the required energy of
\* that delivery, with the initial capacity added only on a refuel wrap.
C5_NoFabricatedEnergy ==
  [][IsCommit =>
       \A s \in Sources :
         report[s] # 0 =>
           remaining'[s] = remaining[s] - Required(s)
                           + (IF refuels'[s] # refuels[s] THEN Tree[s].initial ELSE 0)]_vars

\* C6: the key set of the report returned by calculate_energy_delivered is
\* exactly the set of nodes of the called component's subtree, on the normal
\* path, on the disable shortcut, and for brake and energy-source leaves.
C6_ReportCoversSubtree == HasResult => DOMAIN report = Subtree(qnode)

\* a disabled engine or motor with a child returned its zeroed report
C6_Witness ==
  /\ pc = "queried" /\ ~trace.err
  /\ can_disable(Tree[qnode].kind) /\ qdemand = 0
  /\ Tree[qnode].children # <<>>
  /\ trace.passes[qnode] = 0 /\ Len(trace.calls) = 1

\* C7: in every report each node that has children is recorded with
\* calculate_energy_demand of the sum of the values the same report records for
\* its immediate children, at every depth and after several passes.
C7_Reaggregation ==
  HasResult =>
    \A n \in DOMAIN report :
      Tree[n].children # <<>> =>
        report[n] = calculate_energy_demand(Tree[n].eff,
                                            SumOver(report, Range(Tree[n].children)))

\* a node ran two passes or more and asked a child, itself a parent, for two
\* different tentative demands; the node delivered energy
C7_Witness ==
  /\ HasResult
  /\ \E n \in DOMAIN report :
       /\ trace.passes[n] >= 2 /\ report[n] # 0
       /\ \E c \in Range(Tree[n].children) :
            /\ Tree[c].children # <<>>
            /\ \E i, j \in CallsOn(c) : trace.calls[i][2] # trace.calls[j][2]

\* a component without children that is neither a brake nor an energy source
IsBareLeaf(n) ==
  /\ Tree[n].children = <<>>
  /\ Tree[n].kind # "MechanicalBrake" /\ ~IsSourceKind(Tree[n].kind)

\* the clamped demand of the node called directly
QueriedClamp ==
  power_limited_energy_demand(qnode, qdemand, qdt,
                              IF is_mechanical(Tree[qnode].kind) THEN qw ELSE NoW)

\* C8 as stated: a childless component that is neither brake nor source
\* delivers its efficiency-transformed demand clamped to the power limits (the
\* clamped demand itself, or its transform in either direction), recorded
\* under its own id.
C8_LeafDeliversDemand ==
  (pc = "queried" /\ ~trace.err /\ IsBareLeaf(qnode)) =>
    /\ delivered \in {QueriedClamp,
                      calculate_energy_required(Tree[qnode].eff, QueriedClamp),
                      calculate_energy_demand(Tree[qnode].eff, QueriedClamp)}
    /\ report[qnode] = delivered

\* C8 amended: a childless component that is neither brake nor source
\* delivers 0 for every demand and is recorded with 0 under its own id.
C8_LeafDeliversZero ==
  HasResult =>
    /\ IsBareLeaf(qnode) => delivered = 0
    /\ \A n \in DOMAIN report : IsBareLeaf(n) => report[n] = 0

\* a childless component was asked directly for a demand that its limits
\* leave at two tolerances or more
C8_Witness ==
  /\ pc = "queried" /\ ~trace.err
  /\ IsBareLeaf(qnode)
  /\ QueriedClamp >= 2 * Tol

\* efficiency 1.0, no power or torque clamp, one child at most, down to a source
RECURSIVE IdealChain(_)
IdealChain(n) ==
  LET c == Tree[n] IN
  /\ c.eff = 0
  /\ c.minP <= -INF /\ c.maxP >= INF /\ c.minT <= -INF /\ c.maxT >= INF
  /\ IF IsSourceKind(c.kind) THEN TRUE
     ELSE Len(c.children) = 1 /\ IdealChain(c.children[1])

RECURSIVE ChainLeaf(_)
ChainLeaf(n) == IF Tree[n].children = <<>> THEN n ELSE ChainLeaf(Tree[n].children[1])

\* the capacity of source s does not limit demand d
CapacityAllows(s, d) ==
  /\ d >= -(Tree[s].initial - remaining[s])
  /\ d <= remaining[s] \/ Tree[s].allowNeg \/ Tree[s].allowRefuel

\* C9: with efficiencies 1.0 and no clamps, a single-child tree that ends in a
\* source whose capacity does not limit the demand delivers exactly the demand
\* given to the parent, and every relaxation loop runs a single pass.
C9_SingleChildConservation ==
  (/\ pc \in {"queried", "solved"} /\ ~trace.err
   /\ Tree[qnode].children # <<>>
   /\ IdealChain(qnode)
   /\ CapacityAllows(ChainLeaf(qnode), qdemand)) =>
    /\ delivered = qdemand
    /\ \A n \in Subtree(qnode) : trace.passes[n] <= 1
    /\ Cardinality(CallsOn(ChainLeaf(qnode))) <= 1

\* a timestep of a two-level chain delivered a demand of several tolerances
C9_Witness ==
  /\ pc = "solved"
  /\ IdealChain(Root)
  /\ Len(Preorder(Root)) = 3
  /\ CapacityAllows(ChainLeaf(Root), qdemand)
  /\ qdemand >= 5 * Unit
  /\ trace.passes[Root] = 1

\* C10: a MechanicalBrake given demand d delivers min(d, 0) for every d, every
\* timestep length and every angular velocity, and reports it under its id.
C10_BrakeAsymmetry ==
  /\ (pc = "queried" /\ Tree[qnode].kind = "MechanicalBrake") =>
       /\ ~trace.err
       /\ delivered = (IF qdemand < 0 THEN qdemand ELSE 0)
       /\ report = [k \in {qnode} |-> delivered]
  /\ HasResult =>
       \A b \in DOMAIN report :
         (Tree[b].kind = "MechanicalBrake" /\ CallsOn(b) # {}) =>
           LET last == CHOOSE i \in CallsOn(b) : \A j \in CallsOn(b) : j <= i
               d == trace.calls[last][2]
           IN report[b] = (IF d < 0 THEN d ELSE 0)

\* a brake was asked directly for a large positive demand over the long
\* timestep
C10_Witness ==
  /\ pc = "queried"
  /\ Tree[qnode].kind = "MechanicalBrake"
  /\ qdemand >= 5 * Unit /\ qdt = 2
  /\ delivered = 0

\* ------------------------------------------------------- timestep kinematics
InTimestep == pc \in {"solved", "committed", "returned", "raised"}

\* every child of the motorbike declares a maximum power of 0
ZeroPowertrain == \A c \in Range(Tree[Root].children) : Tree[c].maxP = 0

StandingStart ==
  /\ InTimestep
  /\ ts.current_speed = 0 /\ ts.target_next_speed > 0 /\ ts.delta_elevation = 0

\* C12: calculate_achieved_speed raises the stall error and returns no speed
\* when called on a stationary vehicle with a positive target speed, no
\* elevation change and a powertrain of maximum power 0.
C12_StallFromStandstill ==
  /\ []((StandingStart /\ ZeroPowertrain) => (~trace.err /\ pc # "returned"))
  /\ [][(StandingStart /\ ZeroPowertrain /\ pc = "committed") => pc' = "raised"]_vars

\* the stall error was raised on a standing start towards 3 m/s with a
\* powertrain of maximum power 0
C12_Witness ==
  /\ pc = "raised" /\ ~trace.err
  /\ StandingStart /\ ZeroPowertrain
  /\ ts.target_next_speed = 9 * Unit

\* C13: every speed calculate_achieved_speed returns is non-negative, and a
\* non-positive next speed in a timestep whose total_energy_required is
\* positive raises the stall error instead of being returned.
C13_NoNegativeSpeed ==
  pc = "returned" =>
    /\ achieved_speed >= 0
    /\ ~(achieved_speed <= 0 /\ qdemand > 0)

\* the energy the timestep demands besides the inertial energy
NonInertialDemand == qdemand - ts.inertial_energy_required

\* an acceleration on the level that the powertrain did not deliver in full
CappedAcceleration ==
  /\ pc = "returned"
  /\ ts.current_speed < ts.target_next_speed
  /\ ts.delta_elevation = 0
  /\ delivered < qdemand

\* C14 as stated: when the powertrain is capped below the total demand of an
\* acceleration on the level, the achieved speed is strictly between the
\* current and the target speed.
C14_PartialAcceleration ==
  CappedAcceleration =>
    (ts.current_speed < achieved_speed /\ achieved_speed < ts.target_next_speed)

\* the speed the timestep would have ended at had the powertrain delivered
\* the whole demand
FullDeliverySpeed ==
  calculate_next_speed(mass(Root, remaining), ts.current_speed,
                       ts.inertial_energy_required,
                       ts.inertial_energy_required).next_speed

\* C14 amended: the achieved speed is positive and strictly below the speed
\* a delivery of the whole demand would have given (the target, when the
\* commit leaves the mass of the vehicle unchanged); it is above the current
\* speed exactly when the powertrain delivered more than the drag and
\* rolling demand.
C14_BelowFullDelivery ==
  CappedAcceleration =>
    /\ 0 < achieved_speed /\ achieved_speed < FullDeliverySpeed
    /\ (cfg # "Tanker" => FullDeliverySpeed = ts.target_next_speed)
    /\ (ts.current_speed < achieved_speed) <=> (delivered > NonInertialDemand)

\* a capped acceleration from 1 m/s that ended strictly between the current
\* and the target speed
C14_Witness ==
  /\ CappedAcceleration
  /\ ts.current_speed = Unit /\ delivered > 0
  /\ ts.current_speed < achieved_speed /\ achieved_speed < ts.target_next_speed

\* C15: when calculate_achieved_speed raises, the remaining capacity of every
\* source is what it was before the call.
C15_TimestepAtomic == pc = "raised" => remaining = entry

\* --------------------------------------------------------------- run errors
\* calculate_achieved_speed raised at a point of the run
ErrorRecorded ==
  \E i \in DOMAIN run.warnings : run.warnings[i][1] = "Simulation error"

\* C16: an error raised by calculate_achieved_speed at a timestep of a run
\* ends the run there: no later timestep is simulated on the vehicle and the
\* run is not reported as successful.
C16_ErrorAbortsRun ==
  (ErrorRecorded \/ (run.status # "off" /\ pc = "raised")) =>
    (~run.success /\ pc \notin {"solved", "committed", "returned"})

\* ------------------------------------------------------ efficiency round trip
\* the angular velocity lies in the domain of the definition under evaluation
InEfficiencyDomain == efficiency_ratio_at(fn, fn.w) >= 0

\* C11: for every efficiency definition the constructor accepts and every
\* signed x, calculate_energy_demand(calculate_energy_required(x, w), w) = x
\* for a fixed w in the definition's domain.
C11_RoundTrip ==
  (fn.stage \in {"raised", "demanded"} /\ InEfficiencyDomain) =>
    (fn.stage = "demanded" /\ fn.demanded = Num(fn.x))

\* ------------------------------------------------- angular velocity, disabling
\* a node that runs the general algorithm with a fixed angular velocity
FixedNode(n) ==
  /\ is_mechanical(Tree[n].kind) /\ Tree[n].fixedW # NoW
  /\ Tree[n].kind # "MechanicalBrake" /\ ~IsSourceKind(Tree[n].kind)

\* the calls made on the children of node n in the last run
ChildCalls(n) ==
  {i \in DOMAIN trace.calls : trace.calls[i][1] \in Range(Tree[n].children)}

\* what a fixed node called directly with None does: the clamp at the fixed
\* angular velocity goes to the first child, every child is given
\* gearing_ratio * the fixed value
UsesFixedValue ==
  /\ ~trace.err
  /\ ChildCalls(qnode) # {}
  /\ trace.calls[2][2] =
       calculate_energy_required(Tree[qnode].eff,
         power_limited_energy_demand(qnode, qdemand, qdt, Tree[qnode].fixedW))
  /\ \A i \in ChildCalls(qnode) :
       trace.calls[i][3] = Tree[qnode].gearing * Tree[qnode].fixedW

NoChildCallAfter(i) ==
  i < Len(trace.calls) =>
    trace.calls[i + 1][1] \notin Range(Tree[trace.calls[i][1]].children)

\* C18: a CombustionEngine or ElectricMotor invoked with a demand of exactly
\* 0 delivers 0 and reports 0 for every node of its subtree without querying
\* a child, whatever its power limits; every other kind of component runs the
\* relaxation loop on a demand of 0.
C18_DisableShortcut ==
  /\ (pc = "queried" /\ qdemand = 0 /\ can_disable(Tree[qnode].kind)) =>
       /\ ~trace.err
       /\ delivered = 0
       /\ report = [k \in Subtree(qnode) |-> 0]
       /\ Len(trace.calls) = 1 /\ trace.passes[qnode] = 0
  /\ \A i \in DOMAIN trace.calls :
       (trace.calls[i][2] = 0 /\ Tree[trace.calls[i][1]].kind \in {"CombustionEngine", "ElectricMotor"})
         => NoChildCallAfter(i)
  /\ (pc = "queried" /\ qdemand = 0 /\ ~trace.err
      /\ Tree[qnode].kind \notin {"CombustionEngine", "ElectricMotor", "MechanicalBrake"}
      /\ ~IsSourceKind(Tree[qnode].kind)) =>
       /\ trace.passes[qnode] >= 1
       /\ Tree[qnode].children # <<>> => ChildCalls(qnode) # {}

\* a motor whose minimum power is positive was asked for exactly 0 and
\* returned the zeroed report of its subtree of three nodes
C18_Witness ==
  /\ pc = "queried" /\ qdemand = 0
  /\ Tree[qnode].kind = "ElectricMotor" /\ Tree[qnode].minP > 0
  /\ delivered = 0 /\ Cardinality(DOMAIN report) = 3
  /\ Len(trace.calls) = 1

\* --------------------------------------------------------------------- gearbox
\* the gears whose child angular velocity at w is strictly below the threshold
GearsBelowThreshold(g, w) ==
  {i \in DOMAIN Tree[g].ratios : w * Tree[g].ratios[i] < Tree[g].upshift[i]}

\* C19: for every component angular velocity a Gearbox selects the ratio at
\* the lowest index whose child angular velocity is strictly below its upshift
\* threshold, and its children are passed that ratio * the angular velocity.
C19_GearSelection ==
  \A i \in DOMAIN trace.calls :
    (Tree[trace.calls[i][1]].kind = "Gearbox" /\ trace.calls[i][3] # NoW) =>
      LET g == trace.calls[i][1]
          w == trace.calls[i][3]
      IN /\ GearsBelowThreshold(g, w) # {}
         /\ ~trace.err
         /\ ChildCalls(g) # {}
         /\ \A j \in ChildCalls(g) :
              \E k \in GearsBelowThreshold(g, w) :
                /\ \A l \in GearsBelowThreshold(g, w) : k <= l
                /\ trace.calls[j][3] = Tree[g].ratios[k] * w

\* ---------------------------------------------------------------- regeneration
\* C20: for every setting of allow_negative_fuel / allow_refueling a query
\* never reports absorbing more than the consumed capacity, and
\* remaining_energy_capacity never exceeds initial_energy_capacity.
C20_NeverPastFull ==
  /\ \A s \in Sources : remaining[s] <= Tree[s].initial
  /\ HasResult =>
       \A s \in Sources \cap DOMAIN report :
         calculate_energy_required(Tree[s].eff, report[s])
           >= -(Tree[s].initial - entry[s])

\* a partly used source was offered more regenerated energy than it had
\* given, took what it had given and is full again
C20_Witness ==
  /\ pc = "committed"
  /\ \E s \in Sources :
       /\ entry[s] < Tree[s].initial
       /\ remaining[s] = Tree[s].initial
       /\ \E i \in CallsOn(s) :
            calculate_energy_required(Tree[s].eff, trace.calls[i][2])
              < -(Tree[s].initial - entry[s])

\* ------------------------------------------------------------------- mass
\* the dry masses of the subtree of n, the fuel of its chemical sources and
\* the cells of its electrical sources
FlatMass(n) ==
  LET S == Subtree(n)
      chem == {k \in S : Tree[k].kind = "ChemicalSource"}
      elec == {k \in S : Tree[k].kind = "ElectricalSource"}
  IN SumOver([k \in S |-> Tree[k].dry_mass], S)
     + SumOver([k \in chem |-> Max(remaining_fuel_mass(k, remaining), 0)], chem)
     + SumOver([k \in elec |-> initial_fuel_mass(k)], elec)

\* C24: at every point of a run the mass of every node of a tree of any depth
\* is its own dry mass plus the masses of its children, a chemical source
\* adding max(remaining fuel mass, 0) and an electrical source its cell mass.
C24_MassIsRecursiveSum ==
  /\ \A n \in Nodes : mass(n, remaining) = FlatMass(n)
  /\ \A n \in Nodes :
       mass(n, remaining) >= Tree[n].dry_mass
         + SumOver([k \in Range(Tree[n].children) |-> mass(k, remaining)],
                   Range(Tree[n].children))

\* a timestep has burnt fuel and drawn on the battery: the vehicle of depth 3
\* weighs its dry masses, the cells and the fuel left
C24_Witness ==
  /\ pc = "committed" /\ cfg = "Tanker"
  /\ 0 < remaining[5] /\ remaining[5] < Tree[5].initial
  /\ remaining[6] < Tree[6].initial
  /\ mass(Root, remaining) = MassDen + remaining[5]
  /\ mass(3, remaining) = MassDen \div 2

\* C27: when the powertrain delivers exactly total_energy_required, the speed
\* returned for a non-negative target is the target, also when the commit of
\* the timestep changes the fuel mass of a chemical source.
C27_ExactDeliveryReachesTarget ==
  (pc = "returned" /\ delivered = qdemand /\ ts.target_next_speed >= 0) =>
    achieved_speed = ts.target_next_speed

\* ---------------------------------------------------------------- termination
\* C25: for every finite tree and every finite demand the relaxation loop of
\* calculate_energy_delivered ends after finitely many passes, its residual
\* below 1.0 or within 1.0 of the residual of the previous pass.
C25_LoopTerminates == pc # "hung" /\ ~trace.capped

\* ---------------------------------------------------------------- construction
\* the objects of the tree of the constructed motorbike
BikeParts == Range(ids(build.parts, build.bike))

\* C21: constructing a ChemicalSource or ElectricalSource with both
\* allow_negative_fuel and allow_refueling raises and yields no object, so no
\* source of a constructed motorbike has both flags set.
C21_ConflictingFlagsRejected ==
  /\ (build.op \in SourceKinds /\ build.args[2] /\ build.args[3]) =>
       build.outcome = "ValueError"
  /\ \A i \in DOMAIN build.parts :
       ~(build.parts[i].allowNeg /\ build.parts[i].allowRefuel)
  /\ build.bike # 0 =>
       \A i \in BikeParts : ~(build.parts[i].allowNeg /\ build.parts[i].allowRefuel)

\* a source with both flags was refused after another source had been built,
\* and the objects are the ones there were
C21_Witness ==
  /\ build.op = "ElectricalSource" /\ build.args[2] /\ build.args[3]
  /\ build.outcome = "ValueError"
  /\ Len(build.parts) = 1 /\ build.parts[1].kind = "ChemicalSource"

\* the ids of the tree the last Motorbike call was given
AttemptedIds ==
  ids(Append(build.parts, Part("Motorbike", build.args[1], FALSE, FALSE)),
      Len(build.parts) + 1)

\* C22: constructing a Motorbike whose tree holds a component reachable from
\* two parents raises; every Motorbike that is constructed has pairwise
\* distinct ids over its whole tree.
C22_UniqueIds ==
  /\ (build.op = "Motorbike" /\ build.bike = 0
      /\ Len(AttemptedIds) # Cardinality(Range(AttemptedIds))) =>
       build.outcome = "ValueError"
  /\ build.bike # 0 =>
       LET l == ids(build.parts, build.bike)
       IN \A a, b \in DOMAIN l : a # b => l[a] # l[b]

\* a Motorbike over two components that share a source two levels down was
\* refused
C22_Witness ==
  /\ build.op = "Motorbike" /\ build.outcome = "ValueError" /\ build.bike = 0
  /\ Len(build.args[1]) = 2 /\ build.args[1][1] # build.args[1][2]
  /\ \E s \in DOMAIN build.parts :
       /\ build.parts[s].kind \in SourceKinds
       /\ \A c \in Range(build.args[1]) : s \in Range(build.parts[c].children)

\* C23: in the ICE configuration (engine 2 with efficiency e over tank 4), a
\* timestep whose demand is positive, within the engine's power limits and
\* within what the tank holds reduces the tank's remaining energy by exactly
\* demand / e at the commit, and the engine delivers exactly the demand.
C23_SteadyDemandBurnsFuel ==
  (/\ cfg = "ICE" /\ pc = "committed"
   /\ qdemand > 0
   /\ power_limited_energy_demand(2, qdemand, qdt, qw) = qdemand
   /\ calculate_energy_required(Tree[2].eff, qdemand) <= entry[4]) =>
    /\ report[2] = qdemand
    /\ remaining[4] = entry[4] - calculate_energy_required(Tree[2].eff, qdemand)

\* the angular velocity node n takes its own limits at when called with w
OwnAngularVelocity(n, w) ==
  IF FixedNode(n) THEN Tree[n].fixedW ELSE w

\* the limits of the last call on qnode, times delta_time
LowerLimit ==
  TimesDt(calculate_minimum_power_generation(qnode, OwnAngularVelocity(qnode, qw)), qdt)
UpperLimit ==
  TimesDt(calculate_maximum_power_generation(qnode, OwnAngularVelocity(qnode, qw)), qdt)
ClampedDemand == Min(Max(qdemand, LowerLimit), UpperLimit)

\* qnode ran the general algorithm over at least one child
RanOverChildren ==
  /\ ~IsSourceKind(Tree[qnode].kind) /\ Tree[qnode].kind # "MechanicalBrake"
  /\ Tree[qnode].children # <<>>
  /\ ~(can_disable(Tree[qnode].kind) /\ qdemand = 0)

\* what the immediate children of qnode delivered in their last calls
ChildrenDelivered == SumOver(report, Range(Tree[qnode].children))

\* C26 as stated: the energy a node reports as delivered lies within
\* [min_power * delta_time, max_power * delta_time], torque-derived limits
\* included, also when a child delivers more or less than it was asked for.
C26_DeliveredWithinLimits ==
  (pc \in {"queried", "solved"} /\ ~trace.err) =>
    (LowerLimit <= delivered /\ delivered <= UpperLimit)

\* C26 amended: the limits clamp the demand, not the delivery.  A node that
\* runs the general algorithm asks its first child for the backward transform
\* of the clamped demand and reports the forward transform of what its
\* children delivered, which is the clamped demand when they delivered the
\* target; a source delivers between 0 and the clamped demand; a brake
\* delivers min(demand, 0); a disabled engine or motor delivers 0.
C26_DemandIsClamped ==
  (pc \in {"queried", "solved"} /\ ~trace.err) =>
    LET c == Tree[qnode]
        target == calculate_energy_required(c.eff, ClampedDemand)
    IN /\ IsSourceKind(c.kind) =>
            (Min(ClampedDemand, 0) <= delivered /\ delivered <= Max(ClampedDemand, 0))
       /\ c.kind = "MechanicalBrake" => delivered = Min(qdemand, 0)
       /\ (can_disable(c.kind) /\ qdemand = 0) => delivered = 0
       /\ RanOverChildren =>
            /\ trace.calls[2][1] = c.children[1] /\ trace.calls[2][2] = target
            /\ delivered = calculate_energy_demand(c.eff, ChildrenDelivered)
            /\ (trace.exact /\ ChildrenDelivered = target) => delivered = ClampedDemand

\* a node with a positive minimum power was asked for less, asked its child
\* for the clamped demand, and delivered less than its minimum because the
\* child could not deliver
C26_Witness ==
  /\ pc = "queried" /\ ~trace.err /\ RanOverChildren
  /\ 0 < LowerLimit /\ qdemand < LowerLimit
  /\ trace.calls[2][2] = calculate_energy_required(Tree[qnode].eff, LowerLimit)
  /\ delivered < LowerLimit

\* the calls on the children of qnode, in the order they were made
RECURSIVE ChildCallSeq(_)
ChildCallSeq(i) ==
  IF i > Len(trace.calls) THEN <<>>
  ELSE (IF trace.calls[i][1] \in Range(Tree[qnode].children) THEN <<i>> ELSE <<>>)
       \o ChildCallSeq(i + 1)

\* what the call at index i of the trace returned: the sources are as they
\* were when the solver was entered
ReturnedBy(i) ==
  calculate_energy_delivered(trace.calls[i][1], trace.calls[i][2], qdt,
                             trace.calls[i][3], Fresh(entry)).del

\* the latest delivery of child c before the j-th call on the children of
\* qnode, 0 when it has not been called
RECURSIVE LatestDelivery(_, _, _)
LatestDelivery(calls, c, j) ==
  IF j = 0 THEN 0
  ELSE IF trace.calls[calls[j]][1] = c THEN ReturnedBy(calls[j])
  ELSE LatestDelivery(calls, c, j - 1)

\* C28: within each pass of the loop of qnode the children are served in list
\* order, and each child is asked for the target minus the sum of the latest
\* deliveries of all other children (of this pass for earlier children, of
\* the previous pass for later ones, initially 0).
C28_ChildrenServedInOrder ==
  (pc \in {"queried", "solved"} /\ RanOverChildren) =>
    LET ch == Tree[qnode].children
        calls == ChildCallSeq(2)
        target == calculate_energy_required(Tree[qnode].eff, ClampedDemand)
    IN \A j \in DOMAIN calls :
         LET c == ch[((j - 1) % Len(ch)) + 1]
             others == Range(ch) \ {c}
         IN /\ trace.calls[calls[j]][1] = c
            /\ trace.calls[calls[j]][2] =
                 target - SumOver([o \in others |-> LatestDelivery(calls, o, j - 1)],
                                  others)

\* a second pass over two children: the second child was asked for what the
\* first left uncovered, and the first was then asked again for the target
\* less what the second delivered
C28_Witness ==
  /\ pc \in {"queried", "solved"} /\ RanOverChildren /\ ~trace.err
  /\ Len(Tree[qnode].children) = 2
  /\ LET calls == ChildCallSeq(2)
     IN /\ Len(calls) >= 4
        /\ ReturnedBy(calls[1]) # 0
        /\ ReturnedBy(calls[2]) # 0
        /\ trace.calls[calls[2]][2] # trace.calls[calls[1]][2]
        /\ trace.calls[calls[3]][2] # trace.calls[calls[1]][2]

\* ---------------------------------------------------------------- conservation
\* the nodes of the subtree of n that have no children
Leaves(n) == {k \in Subtree(n) : Tree[k].children = <<>>}

\* a report of a call that returned is at hand
HasReport == pc \in {"queried", "solved", "committed", "returned"} /\ ~trace.err

\* C29: no node creates energy: in every report, the energy recorded for a
\* node with children (every efficiency of these motorbikes is 1 or 1/2) is at
\* most the sum of the energies recorded for its immediate children, so the
\* energy of the root of the call is at most the sum over the leaves below it.
C29_NoEnergyCreated ==
  HasReport =>
    /\ \A n \in DOMAIN report :
         Tree[n].children # <<>> =>
           report[n] <= SumOver(report, Range(Tree[n].children))
    /\ report[qnode] <= SumOver(report, Leaves(qnode))

\* a timestep of the hybrid in which both the engine and the motor delivered
\* and the lossy coupling above them reported less than it received
C29_Witness ==
  /\ cfg = "Hybrid" /\ pc = "solved" /\ ~trace.err
  /\ report[4] > 0 /\ report[5] > 0
  /\ report[2] < report[4] + report[5]
  /\ report[5] < report[7]
  /\ report[1] < SumOver(report, Leaves(1))

\* ---------------------------------------------------------------- regeneration
ChemicalSources == {s \in Sources : Tree[s].kind = "ChemicalSource"}

\* no chemical source reports a negative energy
NoChemicalRegeneration ==
  HasReport => \A s \in ChemicalSources \cap DOMAIN report : report[s] >= 0

\* C30: a ChemicalSource never reports a negative delivered energy, and its
\* remaining capacity never increases from one step to the next except by a
\* refuel wrap.
C30_ChemicalNeverRegenerates ==
  /\ [](NoChemicalRegeneration)
  /\ [][\A s \in ChemicalSources :
          remaining'[s] <= remaining[s] \/ refuels'[s] = refuels[s] + 1]_vars

\* a tank that a timestep had drawn on was asked to take energy back: it
\* reported 0, where an electrical source would have taken what was consumed
C30_Witness ==
  /\ pc = "queried" /\ ~trace.err /\ steps >= 1
  /\ qnode \in ChemicalSources /\ qdemand < 0
  /\ remaining[qnode] < Tree[qnode].initial
  /\ delivered = 0 /\ report[qnode] = 0

====
